---- MODULE Spec2Model ----
(***************************************************************************)
(* Model of autocleanup.h: scope-bound cleanup of pointer bindings         *)
(* (PTR_AUTO_DEFINE / ptr_auto) and handle bindings (HANDLE_AUTO_DEFINE /  *)
(* handle_auto), with ptr_steal, handle_steal, handle_clear and ptr_clear. *)
(*                                                                         *)
(* One lexical scope is modelled.  Bindings are declared in it one after   *)
(* the other; binding i lives in slot i, and i is also used as the address *)
(* of the variable that the compiler hands to the cleanup function.        *)
(* Pointers and handles are integers; resources are 1..MaxRes.             *)
(***************************************************************************)
EXTENDS Integers, Sequences, FiniteSets

\* ---- bounds of the model ----
MaxBindings == 2
MaxRes == 2
MaxOps == 2

\* ---- values ----
\* (void*) 0
NULL == 0

Kinds == {"ptr", "handle"}

\* sentinels a HANDLE_AUTO_DEFINE may declare as _nil_value
DeclaredNils == {-1, 0}

\* nil values a handle_steal / handle_clear call site may pass as _nil_value:
\* the two sentinels above and one value that is also a live resource
NilArgs == {-1, 0, 1}

ExitPaths == {"fallthrough", "return", "unwind"}

VARIABLES
    pc,        \* "body" or "exited": position of control relative to the scope
    exitPath,  \* how the scope was left
    declNil,   \* _HANDLE_AUTO_VNIL(T): the sentinel declared for the handle type
    bindings,  \* the scope's variables, in declaration order
    log,       \* invocations of the release function (_func), in order
    owned,     \* <<kind, value>> returned by a steal and held by the caller
    nextRes,   \* next resource not yet allocated
    mismatch,  \* some call site passed a nil value other than declNil
    ops,       \* number of steal and clear calls made so far
    last       \* the last operation that used a binding

vars == <<pc, exitPath, declNil, bindings, log, owned, nextRes, mismatch, ops, last>>

\* the empty value of a binding of kind k: null, or the declared sentinel
Empty(k) == IF k = "ptr" THEN NULL ELSE declNil

Slots == 1..Len(bindings)

\* ---- the code, as operators ----
\* Each returns the value left in the variable, whether _func was invoked,
\* its argument, and what the variable held at the time of the invocation.

NoCall(v) == [val |-> v, called |-> FALSE, arg |-> v, held |-> v]

PtrAutoCleanupNegated(addr, p) ==
    IF addr = NULL
    THEN [val |-> p, called |-> TRUE, arg |-> p, held |-> p]
    ELSE NoCall(p)

\* PTR_AUTO_DEFINE: { if (_ptr) (_func) (*_ptr); }
\* _ptr is the address of the variable, p its content.
PtrAutoCleanup(addr, p) ==
    IF addr # NULL
    THEN [val |-> p, called |-> TRUE, arg |-> p, held |-> p]
    ELSE NoCall(p)

HandleAutoCleanupNoGuard(addr, h, vnil) ==
    [val |-> vnil, called |-> TRUE, arg |-> h, held |-> vnil]

HandleAutoCleanupLate(addr, h, vnil) ==
    IF addr # NULL /\ h # vnil
    THEN [val |-> vnil, called |-> TRUE, arg |-> h, held |-> h]
    ELSE NoCall(h)

\* HANDLE_AUTO_DEFINE: if (_ptr) { handle = *_ptr;
\*   if (handle != VNIL) { *_ptr = VNIL; (_func) (handle); } }
HandleAutoCleanup(addr, h, vnil) ==
    IF addr # NULL
    THEN IF h # vnil
         THEN [val |-> vnil, called |-> TRUE, arg |-> h, held |-> vnil]
         ELSE NoCall(h)
    ELSE NoCall(h)

handle_clear_noguard(h, vnil) ==
    [val |-> vnil, called |-> TRUE, arg |-> h, held |-> vnil]

handle_clear_keep(h, vnil) ==
    IF h # vnil
    THEN [val |-> h, called |-> TRUE, arg |-> h, held |-> h]
    ELSE NoCall(h)

\* handle_clear: handle = *handle_ptr; vnil = (_nil_value);
\*   if (handle != vnil) { *handle_ptr = vnil; (_func) (handle); }
handle_clear(h, vnil) ==
    IF h # vnil
    THEN [val |-> vnil, called |-> TRUE, arg |-> h, held |-> vnil]
    ELSE NoCall(h)

\* ptr_clear(_pp, _func) is handle_clear ((_pp), (_func), ((void*)0))
ptr_clear(p) == handle_clear(p, NULL)

handle_steal_retnil(h, vnil) == [val |-> vnil, ret |-> vnil]

\* handle_steal: handle = *handle_ptr; *handle_ptr = (_nil_value); handle;
handle_steal(h, vnil) == [val |-> vnil, ret |-> h]

\* ptr_steal: ref = *ptr; *ptr = (void*) 0; return ref;
ptr_steal(p) == [val |-> NULL, ret |-> p]

CleanupFirst(bs) ==
    CHOOSE i \in 1..Len(bs) :
        bs[i].live /\ \A j \in 1..Len(bs) : bs[j].live => j >= i

\* __attribute__((cleanup)): when the scope is left the variables' cleanup
\* functions run in reverse order of declaration; this is the next one.
CleanupNext(bs) ==
    CHOOSE i \in 1..Len(bs) :
        bs[i].live /\ \A j \in 1..Len(bs) : bs[j].live => j <= i

\* ---- state machine ----

NoOp == [op |-> "none", b |-> 0, nil |-> 0, pre |-> 0, ret |-> 0, loglen |-> 0]

Init ==
    /\ pc = "body"
    /\ exitPath = "none"
    /\ declNil \in DeclaredNils
    /\ bindings = << >>
    /\ log = << >>
    /\ owned = {}
    /\ nextRes = 1
    /\ mismatch = FALSE
    /\ ops = 0
    /\ last = NoOp

NewBinding(k, v) ==
    [kind |-> k, init |-> v, val |-> v, live |-> TRUE, stolen |-> FALSE,
     cleared |-> FALSE, lastNil |-> {}, atExit |-> {}]

Declare(k, v) ==
    /\ bindings' = Append(bindings, NewBinding(k, v))
    /\ last' = [op |-> "bind", b |-> Len(bindings) + 1, nil |-> Empty(k),
                pre |-> v, ret |-> v, loglen |-> Len(log)]

\* ptr_auto(T) p = NULL;  handle_auto(T) h = nil;
BindEmpty(k) ==
    /\ pc = "body"
    /\ Len(bindings) < MaxBindings
    /\ Declare(k, Empty(k))
    /\ UNCHANGED <<pc, exitPath, declNil, log, owned, nextRes, mismatch, ops>>

\* ptr_auto(T) p = new_resource ();
BindFresh(k) ==
    /\ pc = "body"
    /\ Len(bindings) < MaxBindings
    /\ nextRes <= MaxRes
    /\ Declare(k, nextRes)
    /\ nextRes' = nextRes + 1
    /\ UNCHANGED <<pc, exitPath, declNil, log, owned, mismatch, ops>>

\* ptr_auto(T) q = ptr_steal (&p);  the caller hands a stolen value to a new binding
Rebind(k, v) ==
    /\ pc = "body"
    /\ Len(bindings) < MaxBindings
    /\ <<k, v>> \in owned
    /\ Declare(k, v)
    /\ owned' = owned \ {<<k, v>>}
    /\ UNCHANGED <<pc, exitPath, declNil, log, nextRes, mismatch, ops>>

LogEntry(i, k, op, r) ==
    [b |-> i, kind |-> k, op |-> op, arg |-> r.arg, held |-> r.held]

Logged(i, k, op, r) == IF r.called THEN Append(log, LogEntry(i, k, op, r)) ELSE log

Take(k, v) == IF v # Empty(k) THEN owned \cup {<<k, v>>} ELSE owned

PtrSteal(i) ==
    /\ pc = "body"
    /\ i \in Slots
    /\ ops < MaxOps
    /\ ops' = ops + 1
    /\ bindings[i].kind = "ptr"
    /\ LET r == ptr_steal(bindings[i].val) IN
        /\ bindings' = [bindings EXCEPT ![i].val = r.val, ![i].stolen = TRUE]
        /\ owned' = Take("ptr", r.ret)
        /\ last' = [op |-> "steal", b |-> i, nil |-> NULL,
                    pre |-> bindings[i].val, ret |-> r.ret, loglen |-> Len(log)]
    /\ UNCHANGED <<pc, exitPath, declNil, log, nextRes, mismatch>>

HandleSteal(i, n) ==
    /\ pc = "body"
    /\ i \in Slots
    /\ ops < MaxOps
    /\ ops' = ops + 1
    /\ bindings[i].kind = "handle"
    /\ LET r == handle_steal(bindings[i].val, n) IN
        /\ bindings' = [bindings EXCEPT ![i].val = r.val, ![i].stolen = TRUE,
                                        ![i].lastNil = {n}]
        /\ owned' = Take("handle", r.ret)
        /\ last' = [op |-> "steal", b |-> i, nil |-> n,
                    pre |-> bindings[i].val, ret |-> r.ret, loglen |-> Len(log)]
    /\ mismatch' = (mismatch \/ n # declNil)
    /\ UNCHANGED <<pc, exitPath, declNil, log, nextRes>>

PtrClear(i) ==
    /\ pc = "body"
    /\ i \in Slots
    /\ ops < MaxOps
    /\ ops' = ops + 1
    /\ bindings[i].kind = "ptr"
    /\ LET r == ptr_clear(bindings[i].val) IN
        /\ bindings' = [bindings EXCEPT ![i].val = r.val,
                            ![i].cleared = bindings[i].cleared \/ r.called]
        /\ log' = Logged(i, "ptr", "clear", r)
        /\ last' = [op |-> "clear", b |-> i, nil |-> NULL,
                    pre |-> bindings[i].val, ret |-> r.arg, loglen |-> Len(log)]
    /\ UNCHANGED <<pc, exitPath, declNil, owned, nextRes, mismatch>>

HandleClear(i, n) ==
    /\ pc = "body"
    /\ i \in Slots
    /\ ops < MaxOps
    /\ ops' = ops + 1
    /\ bindings[i].kind = "handle"
    /\ LET r == handle_clear(bindings[i].val, n) IN
        /\ bindings' = [bindings EXCEPT ![i].val = r.val,
                            ![i].cleared = bindings[i].cleared \/ r.called,
                            ![i].lastNil = IF r.called THEN {n} ELSE bindings[i].lastNil]
        /\ log' = Logged(i, "handle", "clear", r)
        /\ last' = [op |-> "clear", b |-> i, nil |-> n,
                    pre |-> bindings[i].val, ret |-> r.arg, loglen |-> Len(log)]
    /\ mismatch' = (mismatch \/ n # declNil)
    /\ UNCHANGED <<pc, exitPath, declNil, owned, nextRes>>

AnyLive(bs) == \E i \in 1..Len(bs) : bs[i].live

\* the compiler's call _ptr_auto_cleanup_T (&p) or _handle_auto_cleanup_T (&h)
\* for the variable in slot i
CleanupCall(bs, i) ==
    IF bs[i].kind = "ptr"
    THEN PtrAutoCleanup(i, bs[i].val)
    ELSE HandleAutoCleanup(i, bs[i].val, declNil)

RECURSIVE Unwind(_, _)
\* the cleanup calls made while control leaves the scope, one variable after
\* the other; returns the variables and the release log once all have run
Unwind(bs, lg) ==
    IF ~AnyLive(bs)
    THEN [bindings |-> bs, log |-> lg]
    ELSE LET i == CleanupNext(bs)
             r == CleanupCall(bs, i)
         IN Unwind([bs EXCEPT ![i].val = r.val, ![i].live = FALSE,
                              ![i].atExit = {bs[i].val}],
                   IF r.called
                   THEN Append(lg, LogEntry(i, bs[i].kind, "exit", r))
                   ELSE lg)

\* control leaves the scope (end of block, return, or unwinding): every
\* variable's cleanup function runs before the exit completes
LeaveScope(path) ==
    /\ pc = "body"
    /\ pc' = "exited"
    /\ exitPath' = path
    /\ LET u == Unwind(bindings, log) IN
        /\ bindings' = u.bindings
        /\ log' = u.log
    /\ last' = [NoOp EXCEPT !.op = "exit", !.loglen = Len(log)]
    /\ UNCHANGED <<declNil, owned, nextRes, mismatch, ops>>

Next ==
    \/ \E k \in Kinds : BindEmpty(k)
    \/ \E k \in Kinds : BindFresh(k)
    \/ \E k \in Kinds, v \in 1..MaxRes : Rebind(k, v)
    \/ \E i \in 1..MaxBindings : PtrSteal(i)
    \/ \E i \in 1..MaxBindings, n \in NilArgs : HandleSteal(i, n)
    \/ \E i \in 1..MaxBindings : PtrClear(i)
    \/ \E i \in 1..MaxBindings, n \in NilArgs : HandleClear(i, n)
    \/ \E path \in ExitPaths : LeaveScope(path)

Spec == Init /\ [][Next]_vars

\* ---- properties ----

LogIdx == 1..Len(log)

\* invocations of the release function made for binding i
EntriesOf(i) == {k \in LogIdx : log[k].b = i}

\* those made by the scope-exit cleanup of binding i
ExitEntries(i) == {k \in LogIdx : log[k].b = i /\ log[k].op = "exit"}

\* values a binding of kind k can hold that are not its empty value
NonEmptyVals(k) == ((-1)..MaxRes) \ {Empty(k)}

C2_NeverReleasesEmpty ==
    ~mismatch =>
        /\ \A k \in LogIdx : log[k].arg # Empty(log[k].kind)
        /\ \A i \in Slots :
            (~bindings[i].live /\ bindings[i].atExit = {Empty(bindings[i].kind)})
            => ExitEntries(i) = {}

\* C3: after a binding was bound to a non-empty value and then stolen, its
\* scope exit invokes no release function.  Stated for runs in which every
\* call site passes the declared sentinel.
C3_NoReleaseAfterSteal ==
    ~mismatch =>
        \A i \in Slots :
            ( /\ bindings[i].init # Empty(bindings[i].kind)
              /\ bindings[i].stolen
              /\ ~bindings[i].live )
            => ExitEntries(i) = {}

\* C4 (as stated): a steal returns the value held before the call, leaves the
\* binding empty (null / the declared sentinel) and invokes no release.
C4_StealLeavesEmpty ==
    last.op = "steal" =>
        /\ last.ret = last.pre
        /\ bindings[last.b].val = Empty(bindings[last.b].kind)
        /\ Len(log) = last.loglen

\* C4 (amended): a steal returns the value held before the call, leaves the
\* binding holding null (ptr_steal) or the nil value passed to the call
\* (handle_steal), and invokes no release; an empty binding yields its value.
C4_StealLeavesNil ==
    last.op = "steal" =>
        /\ last.ret = last.pre
        /\ bindings[last.b].val = last.nil
        /\ (bindings[last.b].kind = "ptr" => bindings[last.b].val = NULL)
        /\ Len(log) = last.loglen

C4_Witness ==
    /\ last.op = "steal"
    /\ bindings[last.b].kind = "handle"
    /\ last.pre # declNil
    /\ last.nil # declNil
    /\ last.pre # last.nil
    /\ \E i \in Slots : bindings[i].kind = "ptr" /\ bindings[i].stolen
                        /\ bindings[i].init # NULL

\* C5: clearing a non-empty binding holding v invokes the release function
\* at once, exactly once, with v and leaves the binding empty, and the later
\* scope exit of that binding makes no second invocation.  Stated for call
\* sites that pass the declared sentinel, as in the example.
C5_ClearReleasesOnce ==
    ~mismatch =>
        /\ (last.op = "clear" /\ last.pre # last.nil) =>
                /\ Len(log) = last.loglen + 1
                /\ log[Len(log)].arg = last.pre
                /\ bindings[last.b].val = Empty(bindings[last.b].kind)
        /\ \A i \in Slots :
            (bindings[i].cleared /\ ~bindings[i].live) => ExitEntries(i) = {}

NoDoubleRelease ==
    /\ \A k \in Kinds : \A v \in NonEmptyVals(k) :
        Cardinality({j \in LogIdx : log[j].kind = k /\ log[j].arg = v}) <= 1
    /\ \A i, j \in Slots :
        ( /\ i # j
          /\ bindings[i].live /\ bindings[j].live
          /\ bindings[i].kind = bindings[j].kind
          /\ bindings[i].val = bindings[j].val )
        => bindings[i].val = Empty(bindings[i].kind)

\* C6 (as stated): no non-empty value is released twice, and no non-empty
\* value is held by two live bindings at once.
C6_NoDoubleRelease == NoDoubleRelease

\* C6 (amended): the same, provided every handle_steal and handle_clear call
\* passes the sentinel declared for the handle type.
C6_NoDoubleReleaseSameNil == ~mismatch => NoDoubleRelease

C6_Witness ==
    /\ ~mismatch
    /\ pc = "exited"
    /\ \E i, j \in Slots :
        /\ i < j
        /\ bindings[i].stolen
        /\ bindings[i].kind = bindings[j].kind
        /\ bindings[i].init = bindings[j].init
        /\ bindings[i].init # Empty(bindings[i].kind)
        /\ \E k \in ExitEntries(j) : log[k].arg = bindings[j].init

C8_ClearEmptyNoOp ==
    (last.op = "clear" /\ last.pre = last.nil) =>
        /\ bindings[last.b].val = last.pre
        /\ Len(log) = last.loglen

C8_Witness ==
    /\ last.op = "clear"
    /\ last.pre = last.nil
    /\ bindings[last.b].kind = "handle"
    /\ \E i \in Slots : bindings[i].kind = "ptr" /\ bindings[i].init = NULL

\* C9: after handle_steal(b, n) or a releasing handle_clear(b, f, n) the
\* binding holds n, and its scope exit invokes the release function, with n,
\* if and only if n differs from the declared sentinel.
C9_CallSiteNil ==
    /\ ( /\ last.op \in {"steal", "clear"}
         /\ bindings[last.b].kind = "handle"
         /\ (last.op = "clear" => last.pre # last.nil) )
       => bindings[last.b].val = last.nil
    /\ \A i \in Slots : \A n \in bindings[i].lastNil :
        /\ bindings[i].live => bindings[i].val = n
        /\ ~bindings[i].live =>
            /\ (ExitEntries(i) # {}) <=> (n # declNil)
            /\ \A k \in ExitEntries(i) : log[k].arg = n

C9_Witness ==
    \E i, j \in Slots :
        /\ ~bindings[i].live /\ ~bindings[j].live
        /\ bindings[i].stolen /\ bindings[i].lastNil # {declNil}
        /\ ExitEntries(i) # {}
        /\ bindings[j].cleared /\ bindings[j].lastNil = {declNil}
        /\ ExitEntries(j) = {}

\* C10: the handle cleanup and handle_clear store the nil value before they
\* invoke the release function, so the binding is empty during the call and a
\* second application releases nothing more; the pointer cleanup leaves the
\* pointer value in place after invoking the release function.
C10_NilBeforeRelease ==
    /\ (last.op = "clear" /\ Len(log) > last.loglen)
       => /\ log[Len(log)].held = last.nil
          /\ bindings[last.b].val = last.nil
    /\ \A k \in LogIdx :
        (log[k].kind = "handle" /\ log[k].op = "exit") =>
            /\ log[k].held = declNil
            /\ bindings[log[k].b].val = declNil
    /\ \A i \in Slots :
        bindings[i].kind = "handle" =>
            /\ ~HandleAutoCleanup(i, HandleAutoCleanup(i, bindings[i].val, declNil).val,
                                  declNil).called
            /\ \A n \in NilArgs :
                ~handle_clear(handle_clear(bindings[i].val, n).val, n).called
    /\ \A i \in Slots :
        (bindings[i].kind = "ptr" /\ ~bindings[i].live) =>
            /\ bindings[i].atExit = {bindings[i].val}
            /\ \E k \in ExitEntries(i) : log[k].arg = bindings[i].val

C10_Witness ==
    /\ pc = "exited"
    /\ \E i, j \in Slots :
        /\ bindings[i].kind = "handle" /\ bindings[j].kind = "ptr"
        /\ \E k \in ExitEntries(i) : log[k].arg = bindings[i].init
        /\ bindings[j].val # NULL
        /\ \E k \in ExitEntries(j) : log[k].arg = bindings[j].val

====
